---------------------------- MODULE Spec2Model ----------------------------
(***************************************************************************)
(* A model of flow_log_parser.py: the protocol table loader, the lookup   *)
(* table loader, the record validator and the flow record processor, run  *)
(* in the order of main().                                                *)
(*                                                                         *)
(* Text is modelled as sequences of one-character strings, so that        *)
(* strip(), split(), lower(), isdigit(), int() and ip_address() are       *)
(* computed on the characters as Python computes them.  The alphabet is   *)
(* ASCII.                                                                  *)
(***************************************************************************)
EXTENDS Integers, Sequences, FiniteSets, TLC

VARIABLES
    pc,                    \* the statement of main() that runs next
    err,                   \* the exception that ended the run, or "none"
    protoFile,             \* rows of the protocol reference file, header first
    lookupFile,            \* rows of the lookup table file, header first
    flowFile,              \* lines of the flow log file
    line_num,              \* position of the loader or processor in its file
    port_protocol_dict,    \* module-level dict: protocol number -> keyword
    lookup_table,          \* (dstport, protocol) -> tag
    tag_counts,            \* tag -> count
    port_protocol_counts,  \* (dstport, protocol) -> count
    last,                  \* (is_valid, message) of the line validated last
    fallback,              \* whether .get(protocol_number, 'unknown') ever used its default
    report                 \* the two sections written to the output file

vars == <<pc, err, protoFile, lookupFile, flowFile, line_num, port_protocol_dict,
          lookup_table, tag_counts, port_protocol_counts, last, fallback, report>>

-----------------------------------------------------------------------------
(* Python's str and int operations, on sequences of characters.            *)

DIGITS == <<"0", "1", "2", "3", "4", "5", "6", "7", "8", "9">>

UPPER == <<"A", "B", "C", "D", "E", "F", "G", "H", "I", "J", "K", "L", "M",
           "N", "O", "P", "Q", "R", "S", "T", "U", "V", "W", "X", "Y", "Z">>

LOWER == <<"a", "b", "c", "d", "e", "f", "g", "h", "i", "j", "k", "l", "m",
           "n", "o", "p", "q", "r", "s", "t", "u", "v", "w", "x", "y", "z">>

HEXDIGITS == {DIGITS[k] : k \in 1..10} \cup {UPPER[k] : k \in 1..6} \cup {LOWER[k] : k \in 1..6}

\* The ASCII control characters 0x0b and 0x1c to 0x1f.
VT == ""
FS == ""
GS == ""
RS == ""
US == ""

\* The ASCII characters that str.strip() and str.split() take for
\* whitespace (str.isspace).
WHITESPACE == {" ", "\t", "\n", "\r", "\f", VT, FS, GS, RS, US}

\* The ASCII characters that int() skips around a literal (C isspace).
INT_WHITESPACE == {" ", "\t", "\n", "\r", "\f", VT}

is_digit_char(c) == \E k \in 1..10 : DIGITS[k] = c

digit_value(c) == (CHOOSE k \in 1..10 : DIGITS[k] = c) - 1

lower_char(c) == IF \E k \in 1..26 : UPPER[k] = c
                 THEN LOWER[CHOOSE k \in 1..26 : UPPER[k] = c]
                 ELSE c

\* str.lower()
lower(s) == [k \in 1..Len(s) |-> lower_char(s[k])]

RECURSIVE lstrip(_)
lstrip(s) == IF s # <<>> /\ s[1] \in WHITESPACE THEN lstrip(Tail(s)) ELSE s

RECURSIVE rstrip(_)
rstrip(s) == IF s # <<>> /\ s[Len(s)] \in WHITESPACE
             THEN rstrip(SubSeq(s, 1, Len(s) - 1))
             ELSE s

\* str.strip()
strip(s) == rstrip(lstrip(s))

\* The k-th smallest element of a set of integers.
nth(S, k) == CHOOSE x \in S : Cardinality({y \in S : y < x}) = k - 1

\* str.split(): the maximal runs of non-whitespace characters, in order.
\* A run begins at a non-whitespace character that follows whitespace or
\* the beginning of the text, and ends before whitespace or at the end.
split(s) ==
    LET n == Len(s)
        begins == {k \in 1..n : s[k] \notin WHITESPACE /\ (k = 1 \/ s[k - 1] \in WHITESPACE)}
        ends == {k \in 1..n : s[k] \notin WHITESPACE /\ (k = n \/ s[k + 1] \in WHITESPACE)}
    IN [i \in 1..Cardinality(begins) |-> SubSeq(s, nth(begins, i), nth(ends, i))]

\* str.split(sep) for a one-character separator: empty parts are kept.
RECURSIVE split_on_from(_, _, _, _)
split_on_from(s, sep, cur, acc) ==
    IF s = <<>>
    THEN Append(acc, cur)
    ELSE IF s[1] = sep
         THEN split_on_from(Tail(s), sep, <<>>, Append(acc, cur))
         ELSE split_on_from(Tail(s), sep, Append(cur, s[1]), acc)

split_on(s, sep) == split_on_from(s, sep, <<>>, <<>>)

contains(s, c) == \E k \in 1..Len(s) : s[k] = c

\* str.isdigit()
isdigit(s) == s # <<>> /\ \A k \in 1..Len(s) : is_digit_char(s[k])

\* str.startswith(prefix)
startswith(s, prefix) ==
    Len(s) >= Len(prefix) /\ SubSeq(s, 1, Len(prefix)) = prefix

\* The literal that int() reads: the text without the whitespace around it.
RECURSIVE int_lstrip(_)
int_lstrip(s) == IF s # <<>> /\ s[1] \in INT_WHITESPACE THEN int_lstrip(Tail(s)) ELSE s

RECURSIVE int_rstrip(_)
int_rstrip(s) == IF s # <<>> /\ s[Len(s)] \in INT_WHITESPACE
                 THEN int_rstrip(SubSeq(s, 1, Len(s) - 1))
                 ELSE s

int_literal(s) == int_rstrip(int_lstrip(s))

\* The digits of an int() literal after its sign: digits, with single
\* underscores allowed between digits.
int_body(s) ==
    LET t == int_literal(s)
    IN IF t # <<>> /\ t[1] \in {"+", "-"} THEN Tail(t) ELSE t

\* The largest number of digits of a decimal literal that int() converts
\* (sys.get_int_max_str_digits()); the sign, the whitespace and the
\* underscores do not count, leading zeros do.
int_max_str_digits == 4300

\* Whether int(s) returns (TRUE) or raises ValueError (FALSE): for a text
\* that is no literal, and for a literal of too many digits.
int_ok(s) ==
    LET b == int_body(s)
    IN /\ b # <<>>
       /\ is_digit_char(b[1])
       /\ is_digit_char(b[Len(b)])
       /\ \A k \in 1..Len(b) : is_digit_char(b[k]) \/ b[k] = "_"
       /\ \A k \in 1..(Len(b) - 1) : b[k] = "_" => b[k + 1] # "_"
       /\ Cardinality({k \in 1..Len(b) : is_digit_char(b[k])}) <= int_max_str_digits

RECURSIVE digits_value(_, _)
digits_value(b, acc) ==
    IF b = <<>> THEN acc
    ELSE IF b[1] = "_" THEN digits_value(Tail(b), acc)
         ELSE digits_value(Tail(b), 10 * acc + digit_value(b[1]))

\* The value of int(s), where int_ok(s).  Zeros and underscores before
\* the first other digit add nothing to it.
int_val(s) ==
    LET t == int_literal(s)
        b == int_body(s)
        lead == {k \in 1..Len(b) : b[k] \notin {"0", "_"}}
        first == CHOOSE k \in lead : \A j \in lead : k <= j
        v == IF lead = {} THEN 0 ELSE digits_value(SubSeq(b, first, Len(b)), 0)
    IN IF t[1] = "-" THEN 0 - v ELSE v

-----------------------------------------------------------------------------
(* ipaddress.ip_address(): whether it returns or raises ValueError.        *)

\* One octet of a dotted quad: 1 to 3 digits, no leading zero, at most 255.
ipv4_octet_ok(o) ==
    /\ isdigit(o)
    /\ Len(o) <= 3
    /\ ~(Len(o) > 1 /\ o[1] = "0")
    /\ digits_value(o, 0) <= 255

ipv4_ok(s) ==
    LET octets == split_on(s, ".")
    IN /\ ~contains(s, "/")
       /\ s # <<>>
       /\ Len(octets) = 4
       /\ \A k \in 1..4 : ipv4_octet_ok(octets[k])

hextet_ok(h) ==
    /\ h # <<>>
    /\ Len(h) <= 4
    /\ \A k \in 1..Len(h) : h[k] \in HEXDIGITS

\* The address part and the scope id of "addr%scope".
scope_ok(s) ==
    LET ps == split_on(s, "%")
    IN Len(ps) = 1 \/ (Len(ps) = 2 /\ ps[2] # <<>>)

ipv6_parts(s) ==
    LET addr == split_on(s, "%")[1]
        ps == split_on(addr, ":")
    IN IF contains(ps[Len(ps)], ".")
       THEN SubSeq(ps, 1, Len(ps) - 1) \o << <<"0">>, <<"0">> >>
       ELSE ps

ipv6_ok(s) ==
    LET addr == split_on(s, "%")[1]
        raw == split_on(addr, ":")
        parts == ipv6_parts(s)
        n == Len(parts)
        skips == {k \in 2..(n - 1) : parts[k] = <<>>}
    IN /\ ~contains(s, "/")
       /\ scope_ok(s)
       /\ addr # <<>>
       /\ Len(raw) >= 3
       /\ contains(raw[Len(raw)], ".") => ipv4_ok(raw[Len(raw)])
       /\ n <= 9
       /\ Cardinality(skips) <= 1
       /\ IF skips # {}
          THEN LET k == CHOOSE x \in skips : TRUE
                   hi == IF parts[1] = <<>> THEN k - 2 ELSE k - 1
                   lo == IF parts[n] = <<>> THEN n - k - 1 ELSE n - k
               IN /\ parts[1] = <<>> => hi = 0
                  /\ parts[n] = <<>> => lo = 0
                  /\ 8 - (hi + lo) >= 1
                  /\ \A j \in 1..n : parts[j] # <<>> => hextet_ok(parts[j])
          ELSE /\ n = 8
               /\ \A j \in 1..n : hextet_ok(parts[j])

\* ipaddress.ip_address(s) returns: s is an IPv4 or an IPv6 address.
ip_address_ok(s) == ipv4_ok(s) \/ ipv6_ok(s)

-----------------------------------------------------------------------------
(* Dictionaries are functions with a finite domain.                        *)

EmptyDict == [k \in {} |-> 0]

\* d[key] = value
dict_set(d, key, value) ==
    [k \in DOMAIN d \cup {key} |-> IF k = key THEN value ELSE d[k]]

\* dict_incr that stores 1 whatever the count was.
dict_incr_forgets(d, key) == dict_set(d, key, 1)

\* d[key] = d.get(key, 0) + 1
dict_incr(d, key) ==
    dict_set(d, key, IF key \in DOMAIN d THEN d[key] + 1 ELSE 1)

-----------------------------------------------------------------------------
(* build_port_protocol_dict: csv.DictReader over the protocol file.        *)

\* The longest field that a csv reader parses (csv.field_size_limit());
\* on a longer one it raises _csv.Error instead of yielding the row.
field_size_limit == 131072

\* Whether the reader raises _csv.Error on a row with these fields.
field_larger_than_limit(row) == \E k \in 1..Len(row) : Len(row[k]) > field_size_limit

DECIMAL == <<"D", "e", "c", "i", "m", "a", "l">>
KEYWORD == <<"K", "e", "y", "w", "o", "r", "d">>

\* The outcome of row[name] followed by .strip(), for a row read under the
\* header fieldnames: "KeyError" when no column has that name, "None" when
\* the row is too short to have the column (DictReader fills it with None,
\* and None has no strip()), else "str".
dictreader_cell(fieldnames, row, name) ==
    LET cols == {k \in 1..Len(fieldnames) : fieldnames[k] = name}
    IN IF cols = {}
       THEN [kind |-> "KeyError", text |-> <<>>]
       ELSE LET k == CHOOSE c \in cols : \A d \in cols : d <= c
            IN IF k > Len(row)
               THEN [kind |-> "None", text |-> <<>>]
               ELSE [kind |-> "str", text |-> strip(row[k])]

\* build_row without the test of line 27.
build_row_without_range_test(d, fieldnames, row) ==
    LET decimal == strip(row[1])
        keyword == strip(row[2])
    IN IF Len(row) < 2 \/ fieldnames # <<DECIMAL, KEYWORD>> \/ ~int_ok(decimal)
       THEN [raised |-> "none", dict |-> d]
       ELSE [raised |-> "none", dict |-> dict_set(d, int_val(decimal), lower(keyword))]

\* One iteration of the loop of build_port_protocol_dict on a row that the
\* DictReader yields: the exception it raises ("none" when it does not) and
\* the dict after it.
build_row(d, fieldnames, row) ==
    LET decimal == dictreader_cell(fieldnames, row, DECIMAL)
        keyword == dictreader_cell(fieldnames, row, KEYWORD)
    IN IF decimal.kind = "KeyError" THEN [raised |-> "KeyError", dict |-> d]
       ELSE IF decimal.kind = "None" THEN [raised |-> "AttributeError", dict |-> d]
       ELSE IF keyword.kind = "KeyError" THEN [raised |-> "KeyError", dict |-> d]
       ELSE IF keyword.kind = "None" THEN [raised |-> "AttributeError", dict |-> d]
       ELSE IF contains(decimal.text, "-") THEN [raised |-> "none", dict |-> d]
       ELSE IF ~int_ok(decimal.text) THEN [raised |-> "none", dict |-> d]
       ELSE [raised |-> "none",
             dict |-> dict_set(d, int_val(decimal.text), lower(keyword.text))]

-----------------------------------------------------------------------------
(* load_lookup_table: csv.reader over the lookup file.                     *)

\* lookup_row where a key already in the table keeps its tag.
lookup_row_first_wins(table, row) ==
    IF Len(row) # 3 \/ ~int_ok(strip(row[1])) THEN table
    ELSE LET key == <<int_val(strip(row[1])), lower(strip(row[2]))>>
         IN IF ~(0 <= key[1] /\ key[1] <= 65535) \/ key \in DOMAIN table
            THEN table
            ELSE dict_set(table, key, lower(strip(row[3])))

\* One iteration of the loop of load_lookup_table: the table after the row.
lookup_row(table, row) ==
    IF Len(row) # 3 THEN table
    ELSE IF ~int_ok(strip(row[1])) THEN table
    ELSE LET dstport == int_val(strip(row[1]))
             protocol == lower(strip(row[2]))
             tag == lower(strip(row[3]))
         IN IF ~(0 <= dstport /\ dstport <= 65535)
            THEN table
            ELSE dict_set(table, <<dstport, protocol>>, tag)

-----------------------------------------------------------------------------
(* validate_flow_log_entry.                                                *)

Result(is_valid, message) == [valid |-> is_valid, message |-> message]

\* The message of the handler of line 103; Python appends the text of the
\* exception to it.
ErrorInValidation == "Error in flow log validation"

V2 == <<"2">>
ENI == <<"e", "n", "i", "-">>
ACCEPT == <<"A", "C", "C", "E", "P", "T">>
REJECT == <<"R", "E", "J", "E", "C", "T">>
OK == <<"O", "K">>
NODATA == <<"N", "O", "D", "A", "T", "A">>
SKIPDATA == <<"S", "K", "I", "P", "D", "A", "T", "A">>

\* The test of line 89 on one port.
port_in_range(n) == 0 <= n /\ n <= 65535

\* The test of line 91.
protocol_known_always(n, protocols) == TRUE

protocol_known(n, protocols) == n \in protocols

\* Lines 78 to 102, on the 14 fields; protocols is the set of keys of
\* port_protocol_dict.  An int() that raises ValueError, on a text that is
\* no literal or has too many digits, leaves through the handler of line
\* 103.
validate_fields(f, protocols) ==
    IF f[1] # V2 THEN Result(FALSE, "Invalid version")
    ELSE IF ~(isdigit(f[2]) /\ Len(f[2]) = 12) THEN Result(FALSE, "Invalid account ID")
    ELSE IF ~(startswith(f[3], ENI) /\ Len(f[3]) = 12) THEN Result(FALSE, "Invalid interface ID")
    ELSE IF ~ip_address_ok(f[4]) \/ ~ip_address_ok(f[5]) THEN Result(FALSE, "Invalid IP address")
    ELSE IF ~int_ok(f[6]) THEN Result(FALSE, ErrorInValidation)
    ELSE IF ~port_in_range(int_val(f[6])) THEN Result(FALSE, "Invalid port number")
    ELSE IF ~int_ok(f[7]) THEN Result(FALSE, ErrorInValidation)
    ELSE IF ~port_in_range(int_val(f[7])) THEN Result(FALSE, "Invalid port number")
    ELSE IF ~int_ok(f[8]) THEN Result(FALSE, ErrorInValidation)
    ELSE IF ~protocol_known(int_val(f[8]), protocols) THEN Result(FALSE, "Invalid protocol")
    ELSE IF ~int_ok(f[9]) THEN Result(FALSE, ErrorInValidation)
    ELSE IF int_val(f[9]) < 0 THEN Result(FALSE, "Invalid packets or bytes count")
    ELSE IF ~int_ok(f[10]) THEN Result(FALSE, ErrorInValidation)
    ELSE IF int_val(f[10]) < 0 THEN Result(FALSE, "Invalid packets or bytes count")
    ELSE IF ~(isdigit(f[11]) /\ isdigit(f[12])) THEN Result(FALSE, "Invalid timestamps")
    ELSE IF ~int_ok(f[12]) \/ ~int_ok(f[11]) THEN Result(FALSE, ErrorInValidation)
    ELSE IF ~(int_val(f[12]) >= int_val(f[11])) THEN Result(FALSE, "Invalid timestamps")
    ELSE IF f[13] \notin {ACCEPT, REJECT} THEN Result(FALSE, "Invalid action")
    ELSE IF f[14] \notin {OK, NODATA, SKIPDATA} THEN Result(FALSE, "Invalid log status")
    ELSE Result(TRUE, "Valid entry")

\* validate_flow_log_entry(entry), reading the module-level dict d.
validate_entry(entry, d) ==
    LET fields == split(strip(entry))
    IN IF Len(fields) # 14
       THEN Result(FALSE, "Incorrect number of fields")
       ELSE validate_fields(fields, DOMAIN d)

validate_flow_log_entry(entry) == validate_entry(entry, port_protocol_dict)

-----------------------------------------------------------------------------
(* process_flow_logs.                                                      *)

UNKNOWN == <<"u", "n", "k", "n", "o", "w", "n">>
UNTAGGED == <<"u", "n", "t", "a", "g", "g", "e", "d">>

\* Lines 119 to 123 for a line the validator accepted: the destination
\* port, the protocol name, the tag, and whether the .get of line 122
\* returned its default.
classify(line, d, table) ==
    LET parts == split(line)
        dstport == int_val(parts[7])
        protocol_number == int_val(parts[8])
        known == protocol_number \in DOMAIN d
        protocol == lower(IF known THEN d[protocol_number] ELSE UNKNOWN)
        key == <<dstport, protocol>>
    IN [key |-> key,
        tag |-> IF key \in DOMAIN table THEN table[key] ELSE UNTAGGED,
        defaulted |-> ~known]

\* Whether the loop body of process_flow_logs goes on to count the line
\* (lines 115 to 117: an invalid line is logged and skipped).
counts_line(result) == result.valid

\* process_line where an invalid line is counted as untagged instead of
\* being skipped.
process_line_counts_invalid(tags, pairs, line, d, table) ==
    IF ~validate_entry(line, d).valid
    THEN [tags |-> dict_incr(tags, UNTAGGED), pairs |-> pairs, defaulted |-> FALSE]
    ELSE LET c == classify(line, d, table)
         IN [tags |-> dict_incr(tags, c.tag),
             pairs |-> dict_incr(pairs, c.key),
             defaulted |-> c.defaulted]

\* Lines 113 to 131 for one line: the two aggregates after it.
process_line(tags, pairs, line, d, table) ==
    LET result == validate_entry(line, d)
    IN IF ~counts_line(result)
       THEN [tags |-> tags, pairs |-> pairs, defaulted |-> FALSE]
       ELSE LET c == classify(line, d, table)
            IN [tags |-> dict_incr(tags, c.tag),
                pairs |-> dict_incr(pairs, c.key),
                defaulted |-> c.defaulted]

-----------------------------------------------------------------------------
(* The inputs: the contents of the three files.                            *)

MaxProtoRows == 2      \* data rows of a protocol file
MaxLookupRows == 2     \* data rows of a lookup file
MaxFlowLines == 2      \* lines of a flow log in the counting runs
MaxChanged == 2        \* fields of the well-formed line replaced at once

\* All sequences over S of length at most n.
RECURSIVE SeqsUpTo(_, _)
SeqsUpTo(S, n) ==
    IF n = 0 THEN {<<>>}
    ELSE LET shorter == SeqsUpTo(S, n - 1)
         IN shorter \cup {Append(s, x) : s \in {t \in shorter : Len(t) = n - 1}, x \in S}

\* The digits with zeros before them, n digits in all.
Padded(digits, n) == [k \in 1..(n - Len(digits)) |-> "0"] \o digits

\* The longest numeral that int() converts, and one that is a digit longer.
AtLimit(digits) == Padded(digits, int_max_str_digits)
BeyondLimit(digits) == Padded(digits, int_max_str_digits + 1)

\* Protocol files.
ProtoHeaders ==
    { <<DECIMAL, KEYWORD>>,
      <<KEYWORD, DECIMAL, <<"P", "r", "o", "t", "o", "c", "o", "l">>>>,
      <<DECIMAL, <<"N", "a", "m", "e">>>> }

ProtoRows ==
    { <<<<"6">>, <<"T", "C", "P">>>>,
      <<<<" ", "1", "7">> \o <<"\f">>, <<VT>> \o <<"U", "d", "p">> \o <<US, " ">> >>,
      <<<<"+", "6">>, <<"S", "t">>>>,
      <<<<"6", "1">>, <<>>>>,
      <<<<"1", "4", "6", "-", "2", "5", "2">>, <<>>>>,
      <<<<"-", "1">>, <<"n", "e", "g">>>>,
      <<<<"1", " ", "7">>, <<"x", "y", "z">>>>,
      <<<<"H", "o", "p", "o", "p", "t">>, <<"0">>>>,
      <<<<"7">>>>,
      <<>>,
      <<<<"1">>, <<"I", "C", "M", "P">>, <<"I", "n", "t", "e", "r", "n", "e", "t", " ", "C", "o", "n", "t", "r", "o", "l", " ", "M", "e", "s", "s", "a", "g", "e">>>> }

\* Protocol files with a Decimal at and beyond the limit of int().
ProtoLongDecimals ==
    { << <<DECIMAL, KEYWORD>>, <<BeyondLimit(<<"6">>), <<"T", "C", "P">>>>, <<<<"1", "7">>, <<"U", "D", "P">>>> >>,
      << <<DECIMAL, KEYWORD>>, <<AtLimit(<<"6">>), <<"T", "C", "P">>>>, <<<<"1", "7">>, <<"U", "D", "P">>>> >> }

ProtoFiles ==
    {<<>>} \cup ProtoLongDecimals \cup
    {<<h>> \o rows : h \in ProtoHeaders, rows \in SeqsUpTo(ProtoRows, MaxProtoRows)}

ProtoStandard == << <<DECIMAL, KEYWORD>>, <<<<"6">>, <<"T", "C", "P">>>>, <<<<"1", "7">>, <<"U", "D", "P">>>> >>

\* A table in which a protocol is named like the default of line 122.
ProtoNamedUnknown == << <<DECIMAL, KEYWORD>>, <<<<"6">>, <<"T", "C", "P">>>>, <<<<"1", "7">>, <<"U", "n", "k", "n", "o", "w", "n">>>> >>

\* Lookup files.
LookupHeader == <<<<"d", "s", "t", "p", "o", "r", "t">>, <<"p", "r", "o", "t", "o", "c", "o", "l">>, <<"t", "a", "g">>>>

LookupRows ==
    { <<<<"4", "4", "3">>, <<"t", "c", "p">>, <<"w", "e", "b">>>>,
      <<<<" ", "4", "4", "3">> \o <<"\f">>, <<FS>> \o <<"T", "C", "P", " ">>, <<" ", "S", "e", "c", "u", "r", "e">> \o <<VT>> >>,
      <<<<"8", "0">>, <<"U", "D", "P">>, <<"w", "e", "b">>>>,
      <<<<"+", "6", "5", "5", "3", "5">>, <<"T", "c", "p">>, <<>>>>,
      <<<<"6", "5", "5", "3", "6">>, <<"t", "c", "p">>, <<"b", "i", "g">>>>,
      <<<<"-", "0">>, <<"t", "c", "p">>, <<"z", "e", "r", "o">>>>,
      <<<<"x">>, <<"t", "c", "p">>, <<"b", "a", "d">>>>,
      <<<<"4", "4", "3">>, <<"t", "c", "p">>>>,
      <<<<"4", "4", "3">>, <<"t", "c", "p">>, <<"w", "e", "b">>, <<"m", "o", "r", "e">>>>,
      <<>> }

\* Lookup files with a port at and beyond the limit of int().
LookupLongPorts ==
    { <<LookupHeader, <<BeyondLimit(<<"4", "4", "3">>), <<"t", "c", "p">>, <<"l", "o", "n", "g">>>>, <<<<"8", "0">>, <<"u", "d", "p">>, <<"w", "e", "b">>>> >>,
      <<LookupHeader, <<AtLimit(<<"4", "4", "3">>), <<"t", "c", "p">>, <<"l", "o", "n", "g">>>>, <<<<"8", "0">>, <<"u", "d", "p">>, <<"w", "e", "b">>>> >> }

LookupFiles ==
    {<<>>} \cup LookupLongPorts \cup
    {<<h>> \o rows : h \in {LookupHeader, <<>>}, rows \in SeqsUpTo(LookupRows, MaxLookupRows)}

LookupStandard == <<LookupHeader, <<<<"4", "4", "3">>, <<"t", "c", "p">>, <<"w", "e", "b">>>> >>

LookupTables ==
    { LookupStandard,
      <<LookupHeader, <<<<"4", "4", "3">>, <<"T", "C", "P">>, <<"W", "e", "b">>>>, <<<<"8", "0">>, <<"u", "d", "p">>, <<"w", "e", "b">>>> >>,
      <<LookupHeader, <<<<"8", "0">>, <<"u", "d", "p">>, <<"U", "n", "t", "a", "g", "g", "e", "d">>>>, <<<<"8", "0">>, <<"u", "n", "k", "n", "o", "w", "n">>, <<"o", "d", "d">>>> >> }

\* The well-formed line of the end-to-end example, as its 14 fields.
BaseFields ==
    << <<"2">>, <<"1", "2", "3", "4", "5", "6", "7", "8", "9", "0", "1", "2">>, <<"e", "n", "i", "-", "1", "2", "3", "4", "a", "b", "c", "d">>, <<"1", "0", ".", "0", ".", "0", ".", "1">>, <<"1", "0", ".", "0", ".", "0", ".", "2">>,
       <<"1", "0", "2", "4">>, <<"4", "4", "3">>, <<"6">>, <<"1", "0">>, <<"5", "0", "0">>, <<"1", "0", "0">>, <<"2", "0", "0">>, <<"A", "C", "C", "E", "P", "T">>, <<"O", "K">> >>

\* What each field is replaced by, alone or together with other fields:
\* values that keep its rule and values that break it.
Alternatives ==
    << { <<"3">> },
       { <<"1", "2", "3", "4", "5", "6", "7", "8", "9", "0", "1">>, <<"1", "2", "3", "4", "5", "6", "7", "8", "9", "0", "1", "a">> },
       { <<"e", "n", "i", "-", "1", "2", "3", "4", "a", "b", "c", "d", "e">>, <<"e", "n", "x", "-", "1", "2", "3", "4", "a", "b", "c", "d">> },
       { <<":", ":", "1">>, <<"2", "5", "6", ".", "0", ".", "0", ".", "1">>, <<"0", "1", ".", "2", ".", "3", ".", "4">> },
       { <<"2", "0", "0", "1", ":", "d", "b", "8", ":", ":", "f", "f", "f", "f", ":", "1", ".", "2", ".", "3", ".", "4">>, <<"f", "e", "8", "0", ":", ":", "1", "%", "e", "t", "h", "0">>, <<"1", ":", ":", "2", ":", ":", "3">> },
       { <<"6", "5", "5", "3", "5">>, <<"6", "5", "5", "3", "6">>, <<"a", "b", "c">> },
       { <<"+", "4", "4", "3">>, <<"6", "5", "5", "3", "6">>, <<"4", "x", "3">> },
       { <<"1", "7">>, <<"9", "9">>, <<"t", "c", "p">> },
       { <<"-", "0">>, <<"-", "1">>, <<"t", "e", "n">> },
       { <<"1", "_", "0", "0", "0">>, <<"-", "5">>, <<"1", ".", "5">> },
       { <<"2", "0", "0">>, <<"3", "0", "0">>, <<"+", "1", "0", "0">> },
       { <<"1", "0", "0">>, <<"5", "0">> },
       { <<"R", "E", "J", "E", "C", "T">>, <<"a", "c", "c", "e", "p", "t">> },
       { <<"S", "K", "I", "P", "D", "A", "T", "A">>, <<"o", "k">> } >>

\* What each field is replaced by, alone.
MoreAlternatives ==
    << { <<"0", "2">>, <<"2", ".", "0">> },
       { <<"1", "2", "3", "4", "5", "6", "7", "8", "9", "0", "1", "2", "3">>, <<"-", "1", "2", "3", "4", "5", "6", "7", "8", "9", "0", "1">> },
       { <<"e", "n", "i", "-", "1", "2", "3", "4", "a", "b", "c">>, <<"E", "N", "I", "-", "1", "2", "3", "4", "a", "b", "c", "d">> },
       { <<"1", "0", ".", "0", ".", "0">>, <<"1", ".", "2", ".", "3", ".", "4", ".", "5">>, <<"1", ".", "2", ".", "3", ".", "a">>, <<":", ":">>, <<"1", ":", "2", ":", "3", ":", "4", ":", "5", ":", "6", ":", "7", ":", "8">>, <<"1", ":", "2", ":", "3", ":", "4", ":", "5", ":", "6", ":", "7">> },
       { <<"1", "0", ".", "0", ".", "0", ".", "2", "5", "6">>, <<"1", "2", "3", "4", "5", ":", ":", "1">>, <<":", ":", "1", "%">>, <<":", "1">>, <<"1", ":", ":", "g">>, <<":", ":", "f", "f", "f", "f", ":", "1", ".", "2", ".", "3">>,
         <<"f", "e", "8", "0", ":", ":", "1", "%", "e", "t", "h", "0", "/", "6", "4">>, <<":", ":", "1", "/", "1", "2", "8">>, <<"1", "0", ".", "0", ".", "0", ".", "2", "/", "3", "2">> },
       { <<"0">>, <<"-", "1">>, <<"1", "_", "_", "0">>, <<"_", "1", "0">>, <<"+">> },
       { <<"8", "0">>, <<"0", "4", "4", "3">>, <<"-", "0">> },
       { <<"0", "6">>, <<"+", "6">>, <<"-", "6">>, <<"6", ".", "0">> },
       { <<"0">>, <<"0", "x", "1", "0">> },
       { <<"+", "5", "0", "0">>, <<"5", "e", "2">> },
       { <<"a", "b", "c">>, <<"-", "1", "0", "0">>, <<"1", "_", "0", "0">>, <<"0", "1", "0", "0">> },
       { <<"2", "e", "2">>, <<"+", "2", "0", "0">>, <<"0", "9", "9">>, <<"0", "1", "0", "0">> },
       { <<"D", "R", "O", "P">>, <<"A", "C", "C", "E", "P", "T", "E", "D">> },
       { <<"N", "O", "D", "A", "T", "A">>, <<"F", "A", "I", "L">>, <<"O", "k">> } >>

\* The field vectors that differ from BaseFields in at most n fields.
RECURSIVE Changed(_)
Changed(n) ==
    IF n = 0 THEN {BaseFields}
    ELSE LET fewer == Changed(n - 1)
         IN fewer \cup
            UNION {{[v EXCEPT ![k] = a] : v \in fewer, a \in Alternatives[k]} : k \in 1..14}

\* The fields joined by sep, and the end of the line.
RECURSIVE join(_, _)
join(fields, sep) ==
    IF fields = <<>> THEN <<>>
    ELSE IF Len(fields) = 1 THEN fields[1]
    ELSE fields[1] \o sep \o join(Tail(fields), sep)

Line(fields) == join(fields, <<" ">>) \o <<"\n">>

\* Lines with a number of fields other than 14, blank lines, other spacing.
OddLines ==
    { Line(SubSeq(BaseFields, 1, 13)),
      Line(BaseFields \o <<<<"e", "x", "t", "r", "a">>>>),
      Line(<<>>),
      <<" ", " ", "\t", " ", "\n">>,
      <<>>,
      <<"\t">> \o join(BaseFields, <<" ", "\t">>),
      <<VT>> \o join(BaseFields, <<"\f">>) \o <<"\n">>,
      join(BaseFields, <<FS>>) \o <<GS, RS, US>>,
      Line(SubSeq(BaseFields, 1, 7) \o <<<<"x">>>>) }

\* The well-formed line with one of its numbers written with zeros before
\* it, in as many digits as int() converts and in one digit more.
LongLines ==
    {Line([BaseFields EXCEPT ![k] = BeyondLimit(BaseFields[k])]) : k \in 6..12}
    \cup {Line([BaseFields EXCEPT ![k] = AtLimit(BaseFields[k])]) : k \in {7, 9, 11}}

ValidatedLines ==
    {Line(v) : v \in Changed(MaxChanged)}
    \cup UNION {{Line([BaseFields EXCEPT ![k] = a]) : a \in MoreAlternatives[k]} : k \in 1..14}
    \cup OddLines
    \cup LongLines

\* The lines of the counting runs.
CountedLines ==
    { Line(BaseFields),
      Line([BaseFields EXCEPT ![7] = <<"+", "4", "4", "3">>]),
      Line([BaseFields EXCEPT ![7] = <<"8", "0">>, ![8] = <<"1", "7">>]),
      Line([BaseFields EXCEPT ![8] = <<"9", "9">>]),
      Line([BaseFields EXCEPT ![7] = <<"4", "x", "3">>]),
      Line(SubSeq(BaseFields, 1, 13)) }

FlowFiles == SeqsUpTo(CountedLines, MaxFlowLines)

FlowStandard == << Line(BaseFields), Line([BaseFields EXCEPT ![8] = <<"1", "7">>]) >>

-----------------------------------------------------------------------------
(* The run of main().                                                      *)

NoResult == Result(FALSE, "")

NoReport == [written |-> FALSE, tags |-> EmptyDict, pairs |-> EmptyDict]

\* The run varies one file at a time over its family.
Inputs ==
    \/ protoFile \in ProtoFiles /\ lookupFile = LookupStandard /\ flowFile = FlowStandard
    \/ protoFile = ProtoStandard /\ lookupFile \in LookupFiles /\ flowFile = FlowStandard
    \/ /\ protoFile \in {ProtoStandard, ProtoNamedUnknown}
       /\ lookupFile \in LookupTables
       /\ flowFile \in FlowFiles
    \/ /\ protoFile = ProtoStandard
       /\ lookupFile = LookupStandard
       /\ flowFile \in {<<l>> : l \in ValidatedLines}

Init ==
    /\ Inputs
    /\ pc = "build_port_protocol_dict"
    /\ err = "none"
    /\ line_num = 2
    /\ port_protocol_dict = EmptyDict
    /\ lookup_table = EmptyDict
    /\ tag_counts = EmptyDict
    /\ port_protocol_counts = EmptyDict
    /\ last = NoResult
    /\ fallback = FALSE
    /\ report = NoReport

files == <<protoFile, lookupFile, flowFile>>

\* The DictReader reads the header when the loop asks it for the first
\* row, and raises _csv.Error on a header with a field beyond the limit.
fieldnames_raise ==
    line_num = 2 /\ protoFile # <<>> /\ field_larger_than_limit(protoFile[1])

\* Lines 23 to 35: the DictReader yields the next row that is not empty
\* and the loop body runs on it, or the reader raises _csv.Error.
BuildRow ==
    /\ pc = "build_port_protocol_dict"
    /\ line_num <= Len(protoFile) \/ fieldnames_raise
    /\ LET row == protoFile[line_num]
           step == build_row(port_protocol_dict, protoFile[1], row)
       IN IF fieldnames_raise \/ field_larger_than_limit(row)
          THEN /\ pc' = "raised"
               /\ err' = "_csv.Error"
               /\ UNCHANGED <<line_num, port_protocol_dict>>
          ELSE IF row = <<>>
          THEN /\ line_num' = line_num + 1
               /\ UNCHANGED <<pc, err, port_protocol_dict>>
          ELSE IF step.raised # "none"
          THEN /\ pc' = "raised"
               /\ err' = step.raised
               /\ UNCHANGED <<line_num, port_protocol_dict>>
          ELSE /\ port_protocol_dict' = step.dict
               /\ line_num' = line_num + 1
               /\ UNCHANGED <<pc, err>>
    /\ UNCHANGED <<files, lookup_table, tag_counts, port_protocol_counts, last,
                   fallback, report>>

\* Line 37, then lines 41 to 46 of load_lookup_table: next(reader) skips
\* the header; it raises StopIteration on a file without any row and
\* _csv.Error on a header with a field beyond the limit.
BuildReturn ==
    /\ pc = "build_port_protocol_dict"
    /\ line_num > Len(protoFile)
    /\ ~fieldnames_raise
    /\ IF lookupFile = <<>>
       THEN pc' = "raised" /\ err' = "StopIteration" /\ UNCHANGED line_num
       ELSE IF field_larger_than_limit(lookupFile[1])
       THEN pc' = "raised" /\ err' = "_csv.Error" /\ UNCHANGED line_num
       ELSE pc' = "load_lookup_table" /\ line_num' = 2 /\ UNCHANGED err
    /\ UNCHANGED <<files, port_protocol_dict, lookup_table, tag_counts,
                   port_protocol_counts, last, fallback, report>>

\* Lines 47 to 64: the loop body on the next row, or the reader raises
\* _csv.Error out of the loop.
LookupRow ==
    /\ pc = "load_lookup_table"
    /\ line_num <= Len(lookupFile)
    /\ IF field_larger_than_limit(lookupFile[line_num])
       THEN /\ pc' = "raised"
            /\ err' = "_csv.Error"
            /\ UNCHANGED <<line_num, lookup_table>>
       ELSE /\ lookup_table' = lookup_row(lookup_table, lookupFile[line_num])
            /\ line_num' = line_num + 1
            /\ UNCHANGED <<pc, err>>
    /\ UNCHANGED <<files, port_protocol_dict, tag_counts,
                   port_protocol_counts, last, fallback, report>>

\* Lines 66 and 67, then lines 108 to 111 of process_flow_logs.
LookupReturn ==
    /\ pc = "load_lookup_table"
    /\ line_num > Len(lookupFile)
    /\ pc' = "process_flow_logs"
    /\ line_num' = 1
    /\ UNCHANGED <<err, files, port_protocol_dict, lookup_table, tag_counts,
                   port_protocol_counts, last, fallback, report>>

\* Lines 112 to 131 on one line of the flow log.
ProcessLine ==
    /\ pc = "process_flow_logs"
    /\ line_num <= Len(flowFile)
    /\ LET line == flowFile[line_num]
           after == process_line(tag_counts, port_protocol_counts, line,
                                 port_protocol_dict, lookup_table)
       IN /\ last' = validate_flow_log_entry(line)
          /\ tag_counts' = after.tags
          /\ port_protocol_counts' = after.pairs
          /\ fallback' = (fallback \/ after.defaulted)
    /\ line_num' = line_num + 1
    /\ UNCHANGED <<pc, err, files, port_protocol_dict, lookup_table, report>>

\* Lines 133 to 153, and line 173.
WriteReport ==
    /\ pc = "process_flow_logs"
    /\ line_num > Len(flowFile)
    /\ report' = [written |-> TRUE, tags |-> tag_counts, pairs |-> port_protocol_counts]
    /\ pc' = "finished"
    /\ UNCHANGED <<err, files, line_num, port_protocol_dict, lookup_table, tag_counts,
                   port_protocol_counts, last, fallback>>

Next ==
    \/ BuildRow
    \/ BuildReturn
    \/ LookupRow
    \/ LookupReturn
    \/ ProcessLine
    \/ WriteReport

Spec == Init /\ [][Next]_vars

-----------------------------------------------------------------------------
(* The record validator: claims C1 and C2.                                 *)

\* A line has been validated; it is the line before line_num.
Validated == pc \in {"process_flow_logs", "finished"} /\ line_num > 1

ValidatedLine == flowFile[line_num - 1]

\* s is the text of an integer between lo and hi.
IntegerBetween(s, lo, hi) == int_ok(s) /\ lo <= int_val(s) /\ int_val(s) <= hi

NonNegativeInteger(s) == int_ok(s) /\ int_val(s) >= 0

\* The number that an all-digit text stands for.
Numeral(s) ==
    LET lead == {k \in 1..Len(s) : s[k] # "0"}
        first == CHOOSE k \in lead : \A j \in lead : k <= j
    IN IF lead = {} THEN 0 ELSE digits_value(SubSeq(s, first, Len(s)), 0)

\* The number of whitespace-separated fields of a line: the positions
\* where a field begins.
FieldCount(line) ==
    Cardinality({k \in 1..Len(line) :
                    line[k] \notin WHITESPACE /\ (k = 1 \/ line[k - 1] \in WHITESPACE)})

\* Whether each of the 11 rules holds of a line, in the order of the
\* rules.  The rules 2 to 11 are about the fields of a line of 14 fields.
\* A port, a protocol number or a count is an integer when int() parses
\* it; a timestamp is all-digit text, compared by the number it stands for.
RulesHold(line, table) ==
    LET f == split(line)
        has14 == FieldCount(line) = 14
    IN << has14,
          has14 /\ f[1] = <<"2">>,
          has14 /\ Len(f[2]) = 12 /\ \A k \in 1..Len(f[2]) : is_digit_char(f[2][k]),
          has14 /\ Len(f[3]) = 12 /\ SubSeq(f[3], 1, 4) = <<"e", "n", "i", "-">>,
          has14 /\ ip_address_ok(f[4]) /\ ip_address_ok(f[5]),
          has14 /\ IntegerBetween(f[6], 0, 65535) /\ IntegerBetween(f[7], 0, 65535),
          has14 /\ int_ok(f[8]) /\ int_val(f[8]) \in DOMAIN table,
          has14 /\ NonNegativeInteger(f[9]) /\ NonNegativeInteger(f[10]),
          has14 /\ isdigit(f[11]) /\ isdigit(f[12]) /\ Numeral(f[12]) >= Numeral(f[11]),
          has14 /\ f[13] \in {ACCEPT, REJECT},
          has14 /\ f[14] \in {OK, NODATA, SKIPDATA} >>

Reasons ==
    << "Incorrect number of fields", "Invalid version", "Invalid account ID",
       "Invalid interface ID", "Invalid IP address", "Invalid port number",
       "Invalid protocol", "Invalid packets or bytes count", "Invalid timestamps",
       "Invalid action", "Invalid log status" >>

SatisfiesAllRules(line, table) ==
    LET holds == RulesHold(line, table)
    IN \A k \in 1..11 : holds[k]

\* The first rule a line violates.  A line without 14 fields violates rule
\* 1 first; RulesHold counts the rules 2 to 11 violated too, as no field
\* of such a line is known to satisfy them.
FirstViolated(line, table) ==
    LET holds == RulesHold(line, table)
    IN CHOOSE k \in 1..11 : ~holds[k] /\ \A j \in 1..(k - 1) : holds[j]

\* C1: the validator answers Valid exactly for the lines that satisfy all
\* 11 rules, whatever the loaded protocol table; every other line is
\* Invalid.
C1_ValidIffAllRules ==
    Validated => (last.valid <=> SatisfiesAllRules(ValidatedLine, port_protocol_dict))

\* C2: the reason given for an Invalid line is the reason of the first of
\* the 11 rules that the line violates.
C2_ReasonOfFirstViolatedRule ==
    (Validated /\ ~last.valid) =>
        last.message = Reasons[FirstViolated(ValidatedLine, port_protocol_dict)]

-----------------------------------------------------------------------------
(* The flow record processor: claims C3, C4 and C5.                        *)

\* The lines consumed so far.
Consumed ==
    IF pc \in {"process_flow_logs", "finished"} THEN 1..(line_num - 1) ELSE {}

\* The consumed lines that the validator finds Valid.
ValidConsumed == {k \in Consumed : validate_flow_log_entry(flowFile[k]).valid}

\* Of a Valid line: its destination port and the name its protocol number
\* has in the protocol table.
PairOf(k) ==
    LET f == split(flowFile[k])
    IN <<int_val(f[7]), port_protocol_dict[int_val(f[8])]>>

\* Of a Valid line: the tag of its pair, "untagged" when it has none.
TagOf(k) ==
    IF PairOf(k) \in DOMAIN lookup_table THEN lookup_table[PairOf(k)] ELSE UNTAGGED

RECURSIVE Total(_)
Total(counts) ==
    IF DOMAIN counts = {} THEN 0
    ELSE LET key == CHOOSE x \in DOMAIN counts : TRUE
         IN counts[key] + Total([x \in DOMAIN counts \ {key} |-> counts[x]])

\* C3: a line the validator reports Invalid changes neither aggregate, and
\* the processor goes on with the line after it.
C3_InvalidLineSkipped ==
    [][(/\ pc = "process_flow_logs"
        /\ line_num <= Len(flowFile)
        /\ ~validate_flow_log_entry(flowFile[line_num]).valid)
       => (/\ tag_counts' = tag_counts
           /\ port_protocol_counts' = port_protocol_counts
           /\ pc' = "process_flow_logs"
           /\ line_num' = line_num + 1
           /\ last' = validate_flow_log_entry(flowFile[line_num]))]_vars

\* A line of 13 fields was skipped and the line after it was counted.
C3_Witness ==
    /\ pc = "finished"
    /\ Len(flowFile) = 2
    /\ FieldCount(flowFile[1]) = 13
    /\ ValidConsumed = {2}
    /\ Total(report.tags) = 1

\* C4: both aggregates start empty, and after any prefix of the flow log
\* each entry of an aggregate is the number of Valid lines of the prefix
\* with that pair, or with that tag ("untagged" without a lookup entry);
\* both totals are the number of Valid lines consumed.
C4_CountsAreValidLines ==
    LET valid == ValidConsumed
        pairOf == [k \in valid |-> PairOf(k)]
        tagOf == [k \in valid |-> TagOf(k)]
    IN /\ Consumed = {} => (tag_counts = EmptyDict /\ port_protocol_counts = EmptyDict)
       /\ DOMAIN port_protocol_counts = {pairOf[k] : k \in valid}
       /\ \A pair \in DOMAIN port_protocol_counts :
             port_protocol_counts[pair] = Cardinality({k \in valid : pairOf[k] = pair})
       /\ DOMAIN tag_counts = {tagOf[k] : k \in valid}
       /\ \A tag \in DOMAIN tag_counts :
             tag_counts[tag] = Cardinality({k \in valid : tagOf[k] = tag})
       /\ Total(tag_counts) = Cardinality(valid)
       /\ Total(port_protocol_counts) = Cardinality(valid)
       /\ pc = "finished" =>
             (report.tags = tag_counts /\ report.pairs = port_protocol_counts)

\* Two Valid lines with different pairs were counted under one tag of the
\* lookup table.
C4_Witness ==
    /\ pc = "finished"
    /\ Cardinality(DOMAIN report.pairs) = 2
    /\ \E tag \in DOMAIN report.tags : tag # UNTAGGED /\ report.tags[tag] = 2

\* C5: the default of the protocol resolution is never used, and every
\* protocol name counted is a keyword of the protocol table.
C5_FallbackNeverTaken ==
    /\ ~fallback
    /\ \A pair \in DOMAIN port_protocol_counts :
          \E n \in DOMAIN port_protocol_dict : port_protocol_dict[n] = pair[2]

\* A line with a protocol number outside the table was consumed, and a
\* line whose protocol the table names "unknown" was counted.
C5_Witness ==
    /\ pc = "finished"
    /\ \E k \in Consumed :
          /\ FieldCount(flowFile[k]) = 14
          /\ int_ok(split(flowFile[k])[8])
          /\ int_val(split(flowFile[k])[8]) \notin DOMAIN port_protocol_dict
    /\ \E pair \in DOMAIN report.pairs : pair[2] = UNKNOWN

-----------------------------------------------------------------------------
(* The lookup table loader: claim C6.                                      *)

\* build_port_protocol_dict raised: on a row, or in the reader, which
\* raises _csv.Error there when the protocol file has a field beyond the
\* limit and in load_lookup_table otherwise.
ProtoRaised ==
    /\ pc = "raised"
    /\ \/ err \in {"KeyError", "AttributeError"}
       \/ /\ err = "_csv.Error"
          /\ \E k \in 1..Len(protoFile) : field_larger_than_limit(protoFile[k])

\* The loop of load_lookup_table raised; line_num is the row it raised on.
LookupLoopRaised ==
    pc = "raised" /\ err = "_csv.Error" /\ ~ProtoRaised /\ lookup_table # EmptyDict

\* The data rows of the lookup file read so far.
LookupRowsRead ==
    IF pc = "load_lookup_table" \/ LookupLoopRaised THEN 2..(line_num - 1)
    ELSE IF pc \in {"process_flow_logs", "finished"} THEN 2..Len(lookupFile)
    ELSE {}

\* The rows with 3 columns and an integer port between 0 and 65535.
WellFormedLookupRow(row) ==
    Len(row) = 3 /\ IntegerBetween(strip(row[1]), 0, 65535)

LookupKeyOf(row) == <<int_val(strip(row[1])), lower(strip(row[2]))>>

\* A text in lower case without whitespace around it.
Normalized(s) ==
    /\ \A k \in 1..Len(s) : \A u \in 1..26 : s[k] # UPPER[u]
    /\ s # <<>> => (s[1] \notin WHITESPACE /\ s[Len(s)] \notin WHITESPACE)

\* The table that the rows rows of the lookup file stand for: the keys of
\* the well-formed rows, each with the tag of the last row that has it.
LookupTableOf(rows) ==
    LET good == {k \in rows : WellFormedLookupRow(lookupFile[k])}
        keys == {LookupKeyOf(lookupFile[k]) : k \in good}
        lastOf(key) == CHOOSE k \in good :
                          /\ LookupKeyOf(lookupFile[k]) = key
                          /\ \A j \in good : LookupKeyOf(lookupFile[j]) = key => j <= k
    IN [key \in keys |-> lower(strip(lookupFile[lastOf(key)][3]))]

\* C6: the lookup table holds exactly the well-formed rows read so far,
\* normalized, the last row winning on a duplicate key; any other row adds
\* nothing and the rows after it are still loaded.
C6_LookupTableOfRows ==
    /\ lookup_table = LookupTableOf(LookupRowsRead)
    /\ \A key \in DOMAIN lookup_table :
          /\ 0 <= key[1] /\ key[1] <= 65535
          /\ Normalized(key[2])
          /\ Normalized(lookup_table[key])

\* Two rows with the same key were loaded, with different spacing and
\* case, and the table has the tag of the second.
C6_Witness ==
    /\ pc = "process_flow_logs"
    /\ Len(lookupFile) = 3
    /\ WellFormedLookupRow(lookupFile[2])
    /\ WellFormedLookupRow(lookupFile[3])
    /\ lookupFile[2][3] = <<"w", "e", "b">>
    /\ lookupFile[3][2] = <<FS, "T", "C", "P", " ">>
    /\ DOMAIN lookup_table = {<<443, <<"t", "c", "p">> >>}
    /\ lookup_table[<<443, <<"t", "c", "p">> >>] = <<"s", "e", "c", "u", "r", "e">>

-----------------------------------------------------------------------------
(* The protocol table loader: claims C7, C8 and C10.                       *)

\* The data rows of the protocol file that the loop has gone past.
ProtoRowsRead ==
    IF pc = "build_port_protocol_dict" THEN 2..(line_num - 1)
    ELSE IF ProtoRaised THEN 2..(line_num - 1)
    ELSE 2..Len(protoFile)

\* The column of the header with that name.
ColumnOf(name) == CHOOSE c \in 1..Len(protoFile[1]) : protoFile[1][c] = name

HeaderHasColumns ==
    /\ protoFile # <<>>
    /\ \E c \in 1..Len(protoFile[1]) : protoFile[1][c] = DECIMAL
    /\ \E c \in 1..Len(protoFile[1]) : protoFile[1][c] = KEYWORD

DecimalOf(row) == strip(row[ColumnOf(DECIMAL)])

KeywordOf(row) == strip(row[ColumnOf(KEYWORD)])

\* The Decimal of the row is the text of an integer and has no hyphen: it
\* is not a range, and it is not negative.
HasPlainDecimal(row) ==
    /\ Len(row) >= ColumnOf(DECIMAL)
    /\ Len(row) >= ColumnOf(KEYWORD)
    /\ \A k \in 1..Len(DecimalOf(row)) : DecimalOf(row)[k] # "-"
    /\ int_ok(DecimalOf(row))

\* The table that the rows rows of the protocol file stand for.
ProtocolTableOf(rows) ==
    LET good == {k \in rows : HasPlainDecimal(protoFile[k])}
        keys == {int_val(DecimalOf(protoFile[k])) : k \in good}
        lastOf(key) == CHOOSE k \in good :
                          /\ int_val(DecimalOf(protoFile[k])) = key
                          /\ \A j \in good : int_val(DecimalOf(protoFile[j])) = key => j <= k
    IN [key \in keys |-> lower(KeywordOf(protoFile[lastOf(key)]))]

\* C7: the protocol table holds, for every row read whose Decimal is a
\* plain integer, that integer with the lowercased trimmed Keyword, the
\* last row winning on a duplicate key; a row whose Decimal has a hyphen or
\* is not an integer adds nothing; no key is negative.
C7_ProtocolTableOfRows ==
    HeaderHasColumns =>
        /\ port_protocol_dict = ProtocolTableOf(ProtoRowsRead)
        /\ \A key \in DOMAIN port_protocol_dict :
              key >= 0 /\ Normalized(port_protocol_dict[key])

\* The table was built from two rows with the number 6 and has the
\* keyword of the second, in lower case.
C7_Witness ==
    /\ pc = "load_lookup_table"
    /\ Len(protoFile) = 3
    /\ HeaderHasColumns
    /\ HasPlainDecimal(protoFile[2])
    /\ HasPlainDecimal(protoFile[3])
    /\ KeywordOf(protoFile[2]) = <<"T", "C", "P">>
    /\ DecimalOf(protoFile[3]) = <<"+", "6">>
    /\ DOMAIN port_protocol_dict = {6}
    /\ port_protocol_dict[6] = <<"s", "t">>

\* C8: no entry of the protocol table maps a number to an empty keyword.
C8_NoEmptyKeyword ==
    \A key \in DOMAIN port_protocol_dict : port_protocol_dict[key] # <<>>

\* C10: under a header with the Decimal and Keyword columns, no data row
\* makes build_port_protocol_dict raise.
C10_NoRowIsFatal ==
    HeaderHasColumns => ~ProtoRaised

-----------------------------------------------------------------------------
(* The run: claim C9.                                                      *)

\* No statement of main() is left to run.
Stopped == pc \notin {"build_port_protocol_dict", "load_lookup_table", "process_flow_logs"}

\* The protocol file did not end the run; the rows that do are claim C10's.
ProtocolFileLoaded == ~ProtoRaised

\* C9: whatever the three files hold, the run stops only after it has
\* written the report.  Stated for the runs that get past the protocol
\* file.
C9_RunEndsWithReport == (Stopped /\ ProtocolFileLoaded) => report.written

=============================================================================
